---------------------------- MODULE Spec2Model ----------------------------
(***************************************************************************)
(* A model of src/leaderboard.py (class KahootLeaderboardDashboard):       *)
(* the Team sheet reader, the leaderboard aggregation, the bi-weekly       *)
(* alert schedule, the scheduled-task runner and the auto-refresh loop.    *)
(*                                                                         *)
(* Cells of the Team sheet are strings drawn from small alphabets; the     *)
(* string functions the code applies to them (str.strip, pd.to_numeric,    *)
(* str.lower) are tabulated on those alphabets.  Scores are integers: the  *)
(* values of the alphabet are far from the 64-bit range pandas gives them. *)
(***************************************************************************)
EXTENDS Integers, Sequences, FiniteSets, TLC

(***************************************************************************)
(* Bounds of the model.                                                    *)
(***************************************************************************)
MaxRows == 2
\* the clock ranges over the days at most MaxWeeks weeks from the start date
MaxWeeks == 26
\* the webhook receives at most MaxPosts messages
MaxPosts == 2
\* auto_refresh is followed for at most MaxCycles refresh attempts
MaxCycles == 3

(***************************************************************************)
(* Alphabets of the Team sheet.                                            *)
(***************************************************************************)
NameCells == {"", "Alice", "Bob", "Alice "}
ScoreCells == {"", "-5", "50", "100"}
Header == <<"Name", "01-Jan-2025", "08-Jan-2025">>

VARIABLES
    values,         \* the Team sheet as get_all_values() returns it: header row, then data rows
    df,             \* the DataFrame read_data last returned
    leaderboard,    \* the list calculate_leaderboard last returned
    pc,             \* position of the aggregation pipeline: "input" or "done"
    now,            \* wat_now: the current time in the fixed UTC+1 offset
    alert_state,    \* what the last should_send_alert said: "Idle" or "AlertDue"
    manual_trigger, \* the value of the environment variable MANUAL_TRIGGER
    webhook_url,    \* the value of GOOGLE_CHAT_WEBHOOK_URL ("" when not configured)
    viz,            \* the Viz sheet: cell values, formats, merges, dimension updates
    posts,          \* the number of messages POSTed to the webhook so far
    calls,          \* the calls made by the invocation in progress or just ended
    outcome,        \* how that invocation ended: "none", "returned" or "raised"
    loop,           \* position of auto_refresh
    interval_seconds, \* the argument of auto_refresh
    attempts,       \* the refresh attempts auto_refresh has made
    sleeps          \* the completed sleeps since the last refresh attempt

env == <<manual_trigger, webhook_url>>
out == <<viz, posts, calls, outcome>>
auto == <<loop, interval_seconds, attempts, sleeps>>
vars == <<values, df, leaderboard, pc, now, alert_state, env, out, auto>>

(***************************************************************************)
(* Generic helpers.                                                        *)
(***************************************************************************)
Range(s) == {s[i] : i \in 1..Len(s)}

HasDuplicates(s) == \E i, j \in 1..Len(s) : i < j /\ s[i] = s[j]

\* list.count(x)
RECURSIVE Count(_, _)
Count(s, x) ==
    IF s = <<>> THEN 0
    ELSE (IF Head(s) = x THEN 1 ELSE 0) + Count(Tail(s), x)

Max2(a, b) == IF a >= b THEN a ELSE b

\* str.strip() on the name alphabet
Strip(s) ==
    CASE s = "Alice " -> "Alice"
      [] s = " "      -> ""
      [] OTHER        -> s

\* pd.to_numeric(errors='coerce').fillna(0) on the score alphabet:
\* an empty or non-numeric cell is coerced to NaN and then filled with 0
ToNumeric(c) ==
    CASE c = "100" -> 100
      [] c = "50"  -> 50
      [] c = "0"   -> 0
      [] c = "-5"  -> -5
      [] OTHER     -> 0

(***************************************************************************)
(* DataFrames: the column labels and the rows; a row holds its Name cell   *)
(* and its score under each date column.                                   *)
(***************************************************************************)
EmptyDataFrame == [columns |-> <<>>, rows |-> <<>>]

\* df.empty: some axis has length 0
IsEmpty(d) == Len(d.columns) = 0 \/ Len(d.rows) = 0

\* [col for col in df.columns if col != 'Name']
DateColumns(columns) == SelectSeq(columns, LAMBDA col : col # "Name")

ColumnIndex(columns, col) == CHOOSE i \in 1..Len(columns) : columns[i] = col

\* one data row of the sheet as a DataFrame row with numeric score columns
FrameRow(columns, cells) ==
    [Name  |-> cells[ColumnIndex(columns, "Name")],
     score |-> [col \in Range(DateColumns(columns)) |->
                   ToNumeric(cells[ColumnIndex(columns, col)])]]

\* read_data: vals is what get_all_values() returned, failed tells that it raised
read_data(vals, failed) ==
    IF failed THEN EmptyDataFrame
    ELSE IF vals = <<>> THEN EmptyDataFrame
    ELSE IF "Name" \notin Range(Head(vals)) THEN EmptyDataFrame
    \* a repeated label makes df[col] a frame: to_numeric / .str raise, caught at 111
    ELSE IF HasDuplicates(Head(vals)) THEN EmptyDataFrame
    ELSE LET columns == Head(vals)
             all == [i \in 1..(Len(vals) - 1) |-> FrameRow(columns, vals[i + 1])]
         IN  [columns |-> columns,
              rows    |-> SelectSeq(all, LAMBDA r : Strip(r.Name) # "")]

(***************************************************************************)
(* calculate_leaderboard.                                                  *)
(***************************************************************************)
\* lines 138-151: the (date_col, score) pairs of the cells with score > 0
RECURSIVE PlayerScores(_, _)
PlayerScores(row, dates) ==
    IF dates = <<>> THEN <<>>
    ELSE LET score == row.score[Head(dates)]
         IN  (IF score > 0 THEN << <<Head(dates), score>> >> ELSE <<>>)
             \o PlayerScores(row, Tail(dates))

RECURSIVE SumScores(_)
SumScores(ps) == IF ps = <<>> THEN 0 ELSE Head(ps)[2] + SumScores(Tail(ps))

\* mutant of BestScore: keeps the score of the last game instead of the maximum
RECURSIVE BestScoreLast(_, _)
BestScoreLast(ps, best) ==
    IF ps = <<>> THEN best ELSE BestScoreLast(Tail(ps), Head(ps)[2])

\* best_score = max(best_score, score), starting from 0
RECURSIVE BestScore(_, _)
BestScore(ps, best) ==
    IF ps = <<>> THEN best ELSE BestScore(Tail(ps), Max2(best, Head(ps)[2]))

\* list.sort(reverse=True) on numbers
RECURSIVE InsertDesc(_, _)
InsertDesc(s, x) ==
    IF s = <<>> THEN <<x>>
    ELSE IF Head(s) >= x THEN <<Head(s)>> \o InsertDesc(Tail(s), x)
    ELSE <<x>> \o s

RECURSIVE SortDesc(_)
SortDesc(s) ==
    IF s = <<>> THEN <<>>
    ELSE InsertDesc(SortDesc(SubSeq(s, 1, Len(s) - 1)), s[Len(s)])

\* line 158-159: df[df[date_col] > 0][date_col].tolist(), sorted descending
DateScores(d, date_col) ==
    LET col == [i \in 1..Len(d.rows) |-> d.rows[i].score[date_col]]
    IN  SortDesc(SelectSeq(col, LAMBDA s : s > 0))

\* mutant of IsFirstPlace: the tie check of line 164 is missing
IsFirstPlaceNoTieCheck(d, row, date_col) ==
    LET player_score == row.score[date_col]
        date_scores  == DateScores(d, date_col)
    IN  /\ player_score > 0
        /\ date_scores # <<>>
        /\ player_score = date_scores[1]

\* mutant of IsFirstPlace: neither the player's cell nor the column is
\* filtered on score > 0
IsFirstPlaceAnyScore(d, row, date_col) ==
    LET player_score == row.score[date_col]
        date_scores  == SortDesc([i \in 1..Len(d.rows) |-> d.rows[i].score[date_col]])
    IN  /\ date_scores # <<>>
        /\ player_score = date_scores[1]
        /\ Count(date_scores, player_score) = 1

\* lines 156-165: is the row credited a first place for date_col
IsFirstPlace(d, row, date_col) ==
    LET player_score == row.score[date_col]
        date_scores  == DateScores(d, date_col)
    IN  /\ player_score > 0
        /\ date_scores # <<>>
        /\ player_score = date_scores[1]
        /\ Count(date_scores, player_score) = 1

RECURSIVE FirstPlaceCount(_, _, _)
FirstPlaceCount(d, row, dates) ==
    IF dates = <<>> THEN 0
    ELSE (IF IsFirstPlace(d, row, Head(dates)) THEN 1 ELSE 0)
         + FirstPlaceCount(d, row, Tail(dates))

\* ['1ST PLACE'] * first + ['PARTICIPATED'] * (games - first)
Positions(first, games) ==
    [i \in 1..(first + Max2(games - first, 0)) |->
        IF i <= first THEN "1ST PLACE" ELSE "PARTICIPATED"]

\* lines 175-185: the entry of one row
PlayerEntry(d, row) ==
    LET dates == DateColumns(d.columns)
        player_scores == PlayerScores(row, dates)
        total_score == SumScores(player_scores)
        games_played == Len(player_scores)
        first_place_count == FirstPlaceCount(d, row, dates)
    IN  [player            |-> Strip(row.Name),
         total_score       |-> total_score,
         games_played      |-> games_played,
         best_score        |-> BestScore(player_scores, 0),
         avg_score         |-> [num |-> total_score, den |-> games_played],
         win_rate          |-> [num |-> first_place_count * 100, den |-> games_played],
         first_place_count |-> first_place_count,
         positions         |-> Positions(first_place_count, games_played),
         player_scores     |-> player_scores]

\* mutant of FinalLeaderboard: the games_played > 0 test of line 168 is missing
RECURSIVE FinalLeaderboardKeepAll(_, _)
FinalLeaderboardKeepAll(d, rows) ==
    IF rows = <<>> THEN <<>>
    ELSE LET row == Head(rows)
         IN  (IF Strip(row.Name) # "" THEN <<PlayerEntry(d, row)>> ELSE <<>>)
             \o FinalLeaderboardKeepAll(d, Tail(rows))

\* lines 128-185: the entries in row order, before the sort
RECURSIVE FinalLeaderboard(_, _)
FinalLeaderboard(d, rows) ==
    IF rows = <<>> THEN <<>>
    ELSE LET row == Head(rows)
             entry == PlayerEntry(d, row)
         IN  (IF Strip(row.Name) # "" /\ entry.games_played > 0
              THEN <<entry>> ELSE <<>>)
             \o FinalLeaderboard(d, Tail(rows))

\* line 188: list.sort(key=total_score, reverse=True); Python's sort is stable
\* and reverse=True keeps the original order of equal keys
RECURSIVE InsertByTotal(_, _)
InsertByTotal(s, e) ==
    IF s = <<>> THEN <<e>>
    ELSE IF Head(s).total_score >= e.total_score
         THEN <<Head(s)>> \o InsertByTotal(Tail(s), e)
    ELSE <<e>> \o s

\* mutant of SortByTotalScore: an ascending sort followed by a reversal, which
\* reverses the order of equal totals
RECURSIVE SortByTotalScoreReversed(_)
SortByTotalScoreReversed(s) ==
    IF s = <<>> THEN <<>>
    ELSE InsertByTotal(SortByTotalScoreReversed(Tail(s)), Head(s))

RECURSIVE SortByTotalScore(_)
SortByTotalScore(s) ==
    IF s = <<>> THEN <<>>
    ELSE InsertByTotal(SortByTotalScore(SubSeq(s, 1, Len(s) - 1)), s[Len(s)])

calculate_leaderboard(d) ==
    IF IsEmpty(d) THEN <<>>
    ELSE IF DateColumns(d.columns) = <<>> THEN <<>>
    ELSE SortByTotalScore(FinalLeaderboard(d, d.rows))

(***************************************************************************)
(* Dates and times.  A time is what should_send_alert reads of wat_now:     *)
(* the date, the hour and the minute.  Dates are ordered by their           *)
(* proleptic Gregorian ordinal, as datetime.date orders them.               *)
(***************************************************************************)
IsLeap(y) == y % 4 = 0 /\ (y % 100 # 0 \/ y % 400 = 0)

DaysInMonth(y, m) ==
    IF m = 2 THEN (IF IsLeap(y) THEN 29 ELSE 28)
    ELSE IF m \in {4, 6, 9, 11} THEN 30 ELSE 31

DaysBeforeYear(y) ==
    (y - 1) * 365 + (y - 1) \div 4 - (y - 1) \div 100 + (y - 1) \div 400

RECURSIVE DaysBeforeMonth(_, _)
DaysBeforeMonth(y, m) ==
    IF m = 1 THEN 0 ELSE DaysBeforeMonth(y, m - 1) + DaysInMonth(y, m - 1)

\* date.toordinal()
ToOrdinal(d) == DaysBeforeYear(d.year) + DaysBeforeMonth(d.year, d.month) + d.day

\* date.weekday(): Monday is 0
Weekday(d) == (ToOrdinal(d) + 6) % 7

\* datetime(2025, 7, 21, 17, 0, 0, tzinfo=wat_timezone)
StartDate == [year |-> 2025, month |-> 7, day |-> 21, hour |-> 17, minute |-> 0]

\* a < b on datetimes of the same offset
Before(a, b) ==
    \/ ToOrdinal(a) < ToOrdinal(b)
    \/ /\ ToOrdinal(a) = ToOrdinal(b)
       /\ a.hour * 60 + a.minute < b.hour * 60 + b.minute

\* mutant of should_send_alert: an alert already sent suppresses the next one
should_send_alert_once(t) ==
    IF posts > 0 THEN FALSE
    ELSE IF Before(t, StartDate) THEN FALSE
    ELSE IF Weekday(t) # 0 \/ t.hour # 17 THEN FALSE
    ELSE IF ~(0 <= t.minute /\ t.minute < 60) THEN FALSE
    ELSE ((ToOrdinal(t) - ToOrdinal(StartDate)) \div 7) % 2 = 0

\* mutant of should_send_alert: the parity test of line 524 is missing (weekly)
should_send_alert_weekly(t) ==
    IF Before(t, StartDate) THEN FALSE
    ELSE IF Weekday(t) # 0 \/ t.hour # 17 THEN FALSE
    ELSE IF ~(0 <= t.minute /\ t.minute < 60) THEN FALSE
    ELSE TRUE

should_send_alert(t) ==
    IF Before(t, StartDate) THEN FALSE
    ELSE IF Weekday(t) # 0 \/ t.hour # 17 THEN FALSE
    ELSE IF ~(0 <= t.minute /\ t.minute < 60) THEN FALSE
    ELSE LET days_since_start == ToOrdinal(t) - ToOrdinal(StartDate)
             weeks_since_start == days_since_start \div 7
         IN  weeks_since_start % 2 = 0

Years == {2025, 2026}
Minutes == {0, 30, 59}

CalendarDates ==
    {d \in [year : Years, month : 1..12, day : 1..31] :
        /\ d.day <= DaysInMonth(d.year, d.month)
        /\ ToOrdinal(d) - ToOrdinal(StartDate) \in (0 - 7 * MaxWeeks)..(7 * MaxWeeks)}

Times ==
    {[year |-> d.year, month |-> d.month, day |-> d.day, hour |-> h, minute |-> m] :
        d \in CalendarDates, h \in 0..23, m \in Minutes}

(***************************************************************************)
(* The Viz sheet and create_dashboard.  A range 'A5:H6' is <<"A",5,"H",6>>; *)
(* create_dashboard is the sequence of calls it makes on the sheet, run in  *)
(* order against the calls that fail.  Formatted numbers keep their format  *)
(* string and their value.                                                  *)
(***************************************************************************)
Rng(c1, r1, c2, r2) == <<c1, r1, c2, r2>>

Nothing == [r \in {} |-> <<>>]

EmptyViz == [cells |-> Nothing, formats |-> Nothing, merged |-> {}, sized |-> {}]

Put(f, k, v) == [x \in DOMAIN f \cup {k} |-> IF x = k THEN v ELSE f[x]]

Clear == [op |-> "clear", range |-> <<>>, values |-> <<>>]

Update(range, vals) == [op |-> "update", range |-> range, values |-> vals]

Merge(range) == [op |-> "merge", range |-> range, values |-> <<>>]

\* format_cell(worksheet, cell_range, bg_color, text_color, bold, font_size, alignment)
FormatCell(range, bg, text, bold, size, align) ==
    [op |-> "format", range |-> range,
     values |-> [backgroundColor |-> bg, foregroundColor |-> text, bold |-> bold,
                 fontSize |-> size, horizontalAlignment |-> align,
                 verticalAlignment |-> "MIDDLE"]]

\* lines 361-425: the column widths, the header row height, the data row heights
BatchUpdate(n) ==
    [op |-> "batch_update", range |-> <<>>,
     values |-> <<180, 250, 140, 140, 140, 120, 110, 140, 35>>
                  \o (IF n > 0 THEN << <<28, 4, 4 + n>> >> ELSE <<>>)]

Thousands(n) == [fmt |-> "{:,}", value |-> n]
OneDecimal(q) == [fmt |-> "{:,.1f}", value |-> q]
Percent(q) == [fmt |-> "{:.1f}%", value |-> q]

FireWins == 2
StarScore == 9000

\* lines 261-274
Badges(rank, e) ==
    (IF rank = 1 THEN <<"trophy">>
     ELSE IF rank = 2 THEN <<"silver">>
     ELSE IF rank = 3 THEN <<"bronze">> ELSE <<>>)
    \o (IF e.first_place_count >= FireWins THEN <<"fire">> ELSE <<>>)
    \o (IF e.best_score >= StarScore THEN <<"star">> ELSE <<>>)

\* lines 276-285
RowData(rank, e) ==
    <<rank, e.player, Thousands(e.total_score), e.games_played,
      Thousands(e.best_score), OneDecimal(e.avg_score), Percent(e.win_rate),
      Badges(rank, e)>>

DataRowsOf(lb) == [k \in 1..Len(lb) |-> RowData(k, lb[k])]

\* lines 298-305; i is the 0-based index of the row
RowColor(i) ==
    IF i + 1 = 1 THEN "rank_1"
    ELSE IF i + 1 = 2 THEN "rank_2"
    ELSE IF i + 1 = 3 THEN "rank_3"
    ELSE IF i % 2 = 0 THEN "alternating_bg" ELSE "white"

\* lines 289-310
DataOps(lb) ==
    LET n == Len(lb)
    IN  IF n = 0 THEN <<>>
        ELSE <<Update(Rng("A", 5, "H", 4 + n), DataRowsOf(lb))>>
             \o [k \in 1..n |->
                    FormatCell(Rng("A", 4 + k, "H", 4 + k), RowColor(k - 1),
                               "text_dark", k <= 3, 11, "CENTER")]

RECURSIVE SumGames(_)
SumGames(lb) == IF lb = <<>> THEN 0 ELSE Head(lb).games_played + SumGames(Tail(lb))

RECURSIVE MaxBest(_)
MaxBest(lb) ==
    IF Len(lb) = 1 THEN lb[1].best_score ELSE Max2(lb[1].best_score, MaxBest(Tail(lb)))

\* max(leaderboard, key=best_score): the first entry holding the maximum
HighestScorePlayer(lb) ==
    lb[CHOOSE k \in 1..Len(lb) :
          /\ lb[k].best_score = MaxBest(lb)
          /\ \A j \in 1..(k - 1) : lb[j].best_score # MaxBest(lb)].player

\* mutant of SummaryData: the fallback of lines 334-339 leaves the two names
\* blank instead of writing the placeholder
SummaryDataBlankNames(lb, d) ==
    LET total_games == IF IsEmpty(d) THEN 0 ELSE Len(DateColumns(d.columns))
        some == lb # <<>>
    IN  << <<"Total Players:", Len(lb)>>,
           <<"Total Games Played:", total_games>>,
           <<"Current Leader:", IF some THEN lb[1].player ELSE "">>,
           <<"Highest Score Ever:",
             [fmt |-> "{:,} ({})",
              value |-> IF some THEN <<MaxBest(lb), HighestScorePlayer(lb)>>
                        ELSE <<0, "">>]>>,
           <<"Average Score (All Players):",
             OneDecimal([mean_of |-> [k \in 1..Len(lb) |-> lb[k].avg_score]])>>,
           <<"Total Participations:", IF some THEN SumGames(lb) ELSE 0>> >>

\* lines 321-348; the mean of no scores stands for the 0 of line 337
SummaryData(lb, d) ==
    LET total_games == IF IsEmpty(d) THEN 0 ELSE Len(DateColumns(d.columns))
        some == lb # <<>>
    IN  << <<"Total Players:", Len(lb)>>,
           <<"Total Games Played:", total_games>>,
           <<"Current Leader:", IF some THEN lb[1].player ELSE "No data">>,
           <<"Highest Score Ever:",
             [fmt |-> "{:,} ({})",
              value |-> IF some THEN <<MaxBest(lb), HighestScorePlayer(lb)>>
                        ELSE <<0, "No data">>]>>,
           <<"Average Score (All Players):",
             OneDecimal([mean_of |-> [k \in 1..Len(lb) |-> lb[k].avg_score]])>>,
           <<"Total Participations:", IF some THEN SumGames(lb) ELSE 0>> >>

\* lines 313-358
SummaryOps(lb, d) ==
    LET summary_row == 4 + Len(lb) + 2
        summary_start == summary_row + 1
        summary_data == SummaryData(lb, d)
    IN  <<Update(Rng("A", summary_row, "A", summary_row), << <<"SUMMARY STATISTICS">> >>),
          FormatCell(Rng("A", summary_row, "H", summary_row), "summary_bg",
                     "header_text", TRUE, 14, "CENTER"),
          Merge(Rng("A", summary_row, "H", summary_row)),
          Update(Rng("A", summary_start, "B", summary_start + Len(summary_data) - 1),
                 summary_data)>>
        \o [i \in 1..Len(summary_data) |->
               FormatCell(Rng("A", summary_start + i - 1, "B", summary_start + i - 1),
                          "alternating_bg", "text_dark", FALSE, 11, "LEFT")]

\* lines 221-227; last_data_date is "None" when there is no date column
LastUpdated(last_data_date, t) ==
    IF last_data_date # "None" THEN <<"Last Game: ", last_data_date>>
    ELSE <<"Last Updated: ", t>>

\* the calls create_dashboard makes on the Viz sheet, in order
DashboardOps(lb, d, last_data_date, t) ==
    <<Clear,
      Update(Rng("A", 1, "A", 1), << <<"KAHOOT GAMES LEADERBOARD">> >>),
      FormatCell(Rng("A", 1, "H", 1), "header_bg", "header_text", TRUE, 16, "CENTER"),
      Merge(Rng("A", 1, "H", 1)),
      Update(Rng("A", 2, "A", 2), << <<LastUpdated(last_data_date, t)>> >>),
      FormatCell(Rng("A", 2, "H", 2), "alternating_bg", "text_dark", FALSE, 10, "CENTER"),
      Merge(Rng("A", 2, "H", 2)),
      Update(Rng("A", 4, "H", 4),
             << <<"RANK", "PLAYER", "TOTAL SCORE", "GAMES PLAYED", "BEST SCORE",
                  "AVG SCORE", "WIN RATE", "BADGES">> >>),
      FormatCell(Rng("A", 4, "H", 4), "header_bg", "header_text", TRUE, 12, "CENTER")>>
    \o DataOps(lb)
    \o SummaryOps(lb, d)
    \o <<BatchUpdate(Len(lb))>>

\* the effect of one call on the sheet; worksheet.clear() clears the values only
Apply(vz, o) ==
    CASE o.op = "clear"  -> [vz EXCEPT !.cells = Nothing]
      [] o.op = "update" -> [vz EXCEPT !.cells = Put(vz.cells, o.range, o.values)]
      [] o.op = "format" -> [vz EXCEPT !.formats = Put(vz.formats, o.range, o.values)]
      [] o.op = "merge"  -> [vz EXCEPT !.merged = vz.merged \cup {o.range}]
      [] OTHER           -> [vz EXCEPT !.sized = vz.sized \cup {o.values}]

\* mutant of Swallowed: format_cell has no try/except of its own
SwallowedOnlyBatchUpdate(o) == o.op = "batch_update"

\* a failure of format_cell (line 211) or of the dimension update (line 427)
\* is logged and skipped; any other failure leaves create_dashboard (line 434)
Swallowed(o) == o.op \in {"format", "batch_update"}

\* run the calls from the k-th on; fails holds the indices of the calls that raise
RECURSIVE RunOps(_, _, _, _)
RunOps(ops, k, fails, acc) ==
    IF k > Len(ops) THEN acc
    ELSE IF k \in fails
         THEN IF Swallowed(ops[k])
              THEN RunOps(ops, k + 1, fails,
                          [acc EXCEPT !.calls = Append(acc.calls, ops[k].op \o " failed")])
              ELSE [acc EXCEPT !.raised = TRUE,
                               !.calls = Append(acc.calls, ops[k].op \o " failed")]
    ELSE RunOps(ops, k + 1, fails,
                [acc EXCEPT !.viz = Apply(acc.viz, ops[k]),
                            !.calls = Append(acc.calls, ops[k].op)])

create_dashboard(lb, d, last_data_date, t, vz, fails) ==
    RunOps(DashboardOps(lb, d, last_data_date, t), 1, fails,
           [viz |-> vz, raised |-> FALSE, calls |-> <<"create_dashboard">>])

(***************************************************************************)
(* refresh_dashboard.                                                      *)
(***************************************************************************)
\* datetime.strptime(s, '%d-%b-%Y').strftime('%d-%b-%Y') on the header
\* alphabet, and s itself when it does not parse (line 460)
LastDataDate(s) ==
    CASE s = "1-Jan-2025" -> "01-Jan-2025"
      [] s = "8-Jan-2025" -> "08-Jan-2025"
      [] OTHER            -> s

\* lines 448-462: the last date column, reformatted; "None" without date columns
LastDataDateOf(d) ==
    IF DateColumns(d.columns) # <<>>
    THEN LastDataDate(DateColumns(d.columns)[Len(DateColumns(d.columns))])
    ELSE "None"

\* lines 471-477: made is what create_dashboard did; its exception is re-raised
Refreshed(d, lb, made) ==
    [viz |-> made.viz, raised |-> made.raised, df |-> d, leaderboard |-> lb,
     calls |-> <<"refresh_dashboard", "read_data", "calculate_leaderboard">>
                 \o made.calls]

\* mutant of RefreshLeaderboard: the test of line 466 is missing
RefreshLeaderboardAlwaysDraws(d, lb, vz, t, viz_fails) ==
    Refreshed(d, lb, create_dashboard(lb, d, LastDataDateOf(d), t, vz, viz_fails))

\* lines 466-471: nothing is drawn for an empty leaderboard
RefreshLeaderboard(d, lb, vz, t, viz_fails) ==
    IF lb = <<>>
    THEN [viz |-> vz, raised |-> FALSE, df |-> d, leaderboard |-> lb,
          calls |-> <<"refresh_dashboard", "read_data", "calculate_leaderboard">>]
    ELSE Refreshed(d, lb, create_dashboard(lb, d, LastDataDateOf(d), t, vz, viz_fails))

\* mutant of RefreshData: the test of line 443 is missing
RefreshDataNoEmptyCheck(d, vz, t, viz_fails) ==
    RefreshLeaderboard(d, calculate_leaderboard(d), vz, t, viz_fails)

\* lines 443-465: nothing is computed for an empty table
RefreshData(d, vz, t, viz_fails) ==
    IF IsEmpty(d)
    THEN [viz |-> vz, raised |-> FALSE, df |-> d, leaderboard |-> <<>>,
          calls |-> <<"refresh_dashboard", "read_data">>]
    ELSE RefreshLeaderboard(d, calculate_leaderboard(d), vz, t, viz_fails)

\* read_failed: get_all_values raises; viz_fails: the failing Viz sheet calls
refresh_dashboard(vals, vz, t, read_failed, viz_fails) ==
    RefreshData(read_data(vals, read_failed), vz, t, viz_fails)

(***************************************************************************)
(* send_google_chat_alert and run_scheduled_tasks.                         *)
(***************************************************************************)
\* lines 543-569: the text of the message, as the values it is built from
Message(lb, d) ==
    [top_3 |-> [k \in 1..(IF Len(lb) < 3 THEN Len(lb) ELSE 3) |->
                   [badge |-> k, player |-> lb[k].player,
                    total_score |-> Thousands(lb[k].total_score),
                    games_played |-> lb[k].games_played,
                    best_score |-> Thousands(lb[k].best_score),
                    win_rate |-> Percent(lb[k].win_rate)]],
     total_games |-> IF IsEmpty(d) THEN 0 ELSE Len(DateColumns(d.columns))]

\* mutant of send_google_chat_alert: a POST that did not return 200 is sent
\* once more
send_google_chat_alert_retried(lb, url, vals, read_failed, response) ==
    IF url = "" THEN [posted |-> <<>>, calls |-> <<"send_google_chat_alert">>]
    ELSE IF lb = <<>> THEN [posted |-> <<>>, calls |-> <<"send_google_chat_alert">>]
    ELSE IF response = "200"
    THEN [posted |-> <<Message(lb, read_data(vals, read_failed))>>,
          calls  |-> <<"send_google_chat_alert", "read_data", "requests.post " \o response>>]
    ELSE [posted |-> <<Message(lb, read_data(vals, read_failed)),
                       Message(lb, read_data(vals, read_failed))>>,
          calls  |-> <<"send_google_chat_alert", "read_data",
                       "requests.post " \o response, "requests.post " \o response>>]

\* response is "200", another status, or "error" when requests.post raises;
\* whatever it is, it is only logged
send_google_chat_alert(lb, url, vals, read_failed, response) ==
    IF url = "" THEN [posted |-> <<>>, calls |-> <<"send_google_chat_alert">>]
    ELSE IF lb = <<>> THEN [posted |-> <<>>, calls |-> <<"send_google_chat_alert">>]
    ELSE [posted |-> <<Message(lb, read_data(vals, read_failed))>>,
          calls  |-> <<"send_google_chat_alert", "read_data", "requests.post " \o response>>]

\* str.lower() on the values of MANUAL_TRIGGER
Lower(s) ==
    CASE s = "True" -> "true"
      [] s = "TRUE" -> "true"
      [] OTHER      -> s

\* lines 601-602 and 615-616: sent is what send_google_chat_alert did
Alerted(r, d, lb, sent) ==
    [viz |-> r.viz, raised |-> FALSE, posted |-> sent.posted,
     calls |-> r.calls \o <<"read_data", "calculate_leaderboard">> \o sent.calls,
     df |-> d, leaderboard |-> lb]

\* lines 601-602 and 615-616: lb is the leaderboard of that table
AlertLeaderboard(r, d, lb, url, vals, read_failed, response) ==
    Alerted(r, d, lb, send_google_chat_alert(lb, url, vals, read_failed, response))

\* lines 599-604 and 613-618: d is the table read after the refresh
AlertData(r, d, url, vals, read_failed, response) ==
    IF IsEmpty(d)
    THEN [viz |-> r.viz, raised |-> FALSE, posted |-> <<>>,
          calls |-> r.calls \o <<"read_data">>,
          df |-> d, leaderboard |-> r.leaderboard]
    ELSE AlertLeaderboard(r, d, calculate_leaderboard(d), url, vals, read_failed, response)

\* r is what refresh_dashboard did; its exception leaves run_scheduled_tasks
AfterRefresh(r, vals, url, read_fails, response) ==
    IF r.raised
    THEN [viz |-> r.viz, raised |-> TRUE, posted |-> <<>>, calls |-> r.calls,
          df |-> r.df, leaderboard |-> r.leaderboard]
    ELSE AlertData(r, read_data(vals, 2 \in read_fails), url, vals,
                   3 \in read_fails, response)

\* lines 596-604 and 610-618: refresh the dashboard, then send the alert
RefreshAndAlert(vals, vz, t, url, read_fails, viz_fails, response) ==
    AfterRefresh(refresh_dashboard(vals, vz, t, 1 \in read_fails, viz_fails),
                 vals, url, read_fails, response)

Consulted(r) == [r EXCEPT !.calls = <<"should_send_alert">> \o r.calls]

\* r is what refresh_dashboard did in a run that sends no alert
RefreshedOnly(r) ==
    [viz |-> r.viz, raised |-> r.raised, posted |-> <<>>,
     calls |-> <<"should_send_alert">> \o r.calls,
     df |-> r.df, leaderboard |-> r.leaderboard]

\* mutant of run_scheduled_tasks: the dashboard is refreshed in every run and
\* the schedule decides about the alert only
run_scheduled_tasks_refresh_always(manual, vals, vz, t, url, read_fails, viz_fails, response) ==
    IF Lower(manual) = "true"
    THEN RefreshAndAlert(vals, vz, t, url, read_fails, viz_fails, response)
    ELSE IF should_send_alert(t)
    THEN Consulted(RefreshAndAlert(vals, vz, t, url, read_fails, viz_fails, response))
    ELSE RefreshedOnly(refresh_dashboard(vals, vz, t, 1 \in read_fails, viz_fails))

\* mutant of run_scheduled_tasks: the manual trigger only skips the log line,
\* the schedule still decides
run_scheduled_tasks_on_schedule(manual, vals, vz, t, url, read_fails, viz_fails, response) ==
    IF should_send_alert(t)
    THEN (IF Lower(manual) = "true"
          THEN RefreshAndAlert(vals, vz, t, url, read_fails, viz_fails, response)
          ELSE Consulted(RefreshAndAlert(vals, vz, t, url, read_fails, viz_fails, response)))
    ELSE [viz |-> vz, raised |-> FALSE, posted |-> <<>>,
          calls |-> <<"should_send_alert">>, df |-> EmptyDataFrame,
          leaderboard |-> <<>>]

run_scheduled_tasks(manual, vals, vz, t, url, read_fails, viz_fails, response) ==
    IF Lower(manual) = "true"
    THEN RefreshAndAlert(vals, vz, t, url, read_fails, viz_fails, response)
    ELSE IF should_send_alert(t)
    THEN Consulted(RefreshAndAlert(vals, vz, t, url, read_fails, viz_fails, response))
    ELSE [viz |-> vz, raised |-> FALSE, posted |-> <<>>,
          calls |-> <<"should_send_alert">>, df |-> EmptyDataFrame,
          leaderboard |-> <<>>]

(***************************************************************************)
(* Scheduled runs: each run_scheduled_tasks is one process; between runs   *)
(* the clock advances and the Team sheet is edited.  The Viz sheet and the *)
(* webhook's channel outlive the runs.                                     *)
(***************************************************************************)
\* no scheduled run has taken place and the environment is empty
NoScheduledRun ==
    /\ manual_trigger = ""
    /\ webhook_url = ""
    /\ viz = EmptyViz
    /\ posts = 0
    /\ calls = <<>>
    /\ outcome = "none"

\* auto_refresh has not been called
NoAutoRefresh ==
    /\ loop = "idle"
    /\ interval_seconds = 300
    /\ attempts = 0
    /\ sleeps = 0

ManualTriggers == {"", "true", "TRUE"}
WebhookUrls == {"", "https://chat.googleapis.com/v1/spaces/X/messages"}
Responses == {"200", "500", "error"}

SchedSheets ==
    { <<Header>>,
      <<Header, <<"Alice", "", "0">>, <<"Bob", "-5", "">> >>,
      <<Header, <<"Alice", "100", "50">>, <<"Bob", "50", "">> >>,
      << <<"Player", "01-Jan-2025">>, <<"Alice", "100">> >> }

SchedTimes ==
    { [year |-> 2025, month |-> 7, day |-> 21, hour |-> 16, minute |-> 59],
      [year |-> 2025, month |-> 7, day |-> 21, hour |-> 17, minute |-> 0],
      [year |-> 2025, month |-> 7, day |-> 21, hour |-> 17, minute |-> 59],
      [year |-> 2025, month |-> 7, day |-> 28, hour |-> 17, minute |-> 0] }

\* what goes wrong in one run: nothing, or one read of the Team sheet, or one
\* of the first MaxFailAt calls create_dashboard makes on the Viz sheet, or
\* the POST.  A fault is <<failing reads, failing Viz calls, response>>.
MaxFailAt == 3
Faults ==
    {<<{}, {}, "200">>}
      \cup {<<{k}, {}, "200">> : k \in 1..3}
      \cup {<<{}, {k}, "200">> : k \in 1..MaxFailAt}
      \cup {<<{}, {}, r>> : r \in Responses \ {"200"}}

InitSched ==
    /\ values \in SchedSheets
    /\ now \in SchedTimes
    /\ manual_trigger \in ManualTriggers
    /\ webhook_url \in WebhookUrls
    /\ viz = EmptyViz
    /\ posts = 0
    /\ calls = <<>>
    /\ outcome = "none"
    /\ df = EmptyDataFrame
    /\ leaderboard = <<>>
    /\ alert_state = "Idle"
    /\ pc = "input"
    /\ NoAutoRefresh

\* the effects of a run on the state
Ran(r) ==
    /\ viz' = r.viz
    /\ posts' = posts + Len(r.posted)
    /\ calls' = r.calls
    /\ outcome' = IF r.raised THEN "raised" ELSE "returned"
    /\ df' = r.df
    /\ leaderboard' = r.leaderboard

RunScheduledTasks ==
    /\ posts < MaxPosts
    /\ \E fault \in Faults :
         Ran(run_scheduled_tasks(manual_trigger, values, viz, now, webhook_url,
                                 fault[1], fault[2], fault[3]))
    /\ alert_state' = IF Lower(manual_trigger) = "true" THEN alert_state
                      ELSE IF should_send_alert(now) THEN "AlertDue" ELSE "Idle"
    /\ pc' = "done"
    /\ UNCHANGED <<values, now, env, auto>>

\* the clock moves on; the next run is a new process
Tick ==
    /\ \E t \in SchedTimes : Before(now, t) /\ now' = t
    /\ calls' = <<>>
    /\ outcome' = "none"
    /\ pc' = "input"
    /\ alert_state' = "Idle"
    /\ UNCHANGED <<values, df, leaderboard, env, viz, posts, auto>>

\* somebody edits the Team sheet
EditSheet ==
    /\ \E v \in SchedSheets : v # values /\ values' = v
    /\ calls' = <<>>
    /\ outcome' = "none"
    /\ pc' = "input"
    /\ UNCHANGED <<df, leaderboard, now, alert_state, env, viz, posts, auto>>

NextSched == RunScheduledTasks \/ Tick \/ EditSheet

SpecSched == InitSched /\ [][NextSched]_vars

(***************************************************************************)
(* auto_refresh: the loop of lines 483-495, one step per blocking call.    *)
(***************************************************************************)
Intervals == {-1, 0, 300}

AutoSheets ==
    { <<Header>>,
      <<Header, <<"Alice", "100", "50">>, <<"Bob", "50", "">> >>,
      <<Header, <<"Bob", "100", "100">> >> }

InitAuto ==
    /\ values \in AutoSheets
    /\ interval_seconds \in Intervals
    /\ loop = "refresh"
    /\ attempts = 0
    /\ sleeps = 0
    /\ now = StartDate
    /\ df = EmptyDataFrame
    /\ leaderboard = <<>>
    /\ alert_state = "Idle"
    /\ pc = "input"
    /\ NoScheduledRun

\* the effects of a refresh on the state and on the loop
RefreshedInLoop(r) ==
    /\ viz' = r.viz
    /\ calls' = r.calls
    /\ outcome' = IF r.raised THEN "raised" ELSE "returned"
    /\ df' = r.df
    /\ leaderboard' = r.leaderboard
    /\ loop' = IF r.raised THEN "retry_sleep" ELSE "sleep"

\* line 485: self.refresh_dashboard(), which returns or raises
RefreshCycle ==
    /\ loop = "refresh"
    /\ attempts < MaxCycles
    /\ \E fault \in {f \in Faults : f[3] = "200" /\ f[1] \subseteq {1}} :
         RefreshedInLoop(refresh_dashboard(values, viz, now, 1 \in fault[1], fault[2]))
    /\ attempts' = attempts + 1
    /\ sleeps' = 0
    /\ UNCHANGED <<values, pc, now, alert_state, env, posts, interval_seconds>>

\* line 487: time.sleep(interval_seconds) in the try block; time.sleep raises
\* ValueError for a negative length, which line 492 catches
Sleep ==
    /\ loop = "sleep"
    /\ IF interval_seconds < 0
       THEN loop' = "retry_sleep" /\ sleeps' = sleeps
       ELSE loop' = "refresh" /\ sleeps' = sleeps + 1
    /\ UNCHANGED <<values, df, leaderboard, pc, now, alert_state, env, out,
                   interval_seconds, attempts>>

\* line 495: time.sleep(interval_seconds) in the handler of line 492; an
\* exception raised here is not caught by the handlers of the same try
RetrySleep ==
    /\ loop = "retry_sleep"
    /\ IF interval_seconds < 0
       THEN loop' = "crashed" /\ sleeps' = sleeps
       ELSE loop' = "refresh" /\ sleeps' = sleeps + 1
    /\ UNCHANGED <<values, df, leaderboard, pc, now, alert_state, env, out,
                   interval_seconds, attempts>>

\* the user presses Ctrl-C: line 489 breaks the loop when the interrupt comes
\* in the try block; in the handler of line 492 it leaves auto_refresh
Interrupt ==
    /\ loop \in {"refresh", "sleep", "retry_sleep"}
    /\ loop' = IF loop = "retry_sleep" THEN "interrupted" ELSE "stopped"
    /\ UNCHANGED <<values, df, leaderboard, pc, now, alert_state, env, out,
                   interval_seconds, attempts, sleeps>>

\* somebody edits the Team sheet while the loop sleeps
EditWhileAsleep ==
    /\ loop \in {"sleep", "retry_sleep"}
    /\ \E v \in AutoSheets : v # values /\ values' = v
    /\ UNCHANGED <<df, leaderboard, pc, now, alert_state, env, out, auto>>

NextAuto == RefreshCycle \/ Sleep \/ RetrySleep \/ Interrupt \/ EditWhileAsleep

SpecAuto == InitAuto /\ [][NextAuto]_vars

(***************************************************************************)
(* The schedule check at every time of the window.                         *)
(***************************************************************************)
InitAlert ==
    /\ now \in Times
    /\ alert_state = "Idle"
    /\ pc = "input"
    /\ values = <<>>
    /\ df = EmptyDataFrame
    /\ leaderboard = <<>>
    /\ NoScheduledRun
    /\ NoAutoRefresh

CheckSchedule ==
    /\ pc = "input"
    /\ alert_state' = IF should_send_alert(now) THEN "AlertDue" ELSE "Idle"
    /\ pc' = "done"
    /\ UNCHANGED <<values, df, leaderboard, now, env, out, auto>>

NextAlert == CheckSchedule

SpecAlert == InitAlert /\ [][NextAlert]_vars

(***************************************************************************)
(* The aggregation pipeline on every small Team sheet.                     *)
(***************************************************************************)
DataRows ==
    {<<n, a, b>> : n \in NameCells, a \in ScoreCells, b \in ScoreCells}

Sheets ==
    UNION {[1..k -> DataRows] : k \in 0..MaxRows}

InitAgg ==
    /\ values \in {<<Header>> \o s : s \in Sheets}
    /\ df = EmptyDataFrame
    /\ leaderboard = <<>>
    /\ pc = "input"
    /\ now = StartDate
    /\ alert_state = "Idle"
    /\ NoScheduledRun
    /\ NoAutoRefresh

Aggregate ==
    /\ pc = "input"
    /\ df' = read_data(values, FALSE)
    /\ leaderboard' = calculate_leaderboard(df')
    /\ pc' = "done"
    /\ UNCHANGED <<values, now, alert_state, env, out, auto>>

NextAgg == Aggregate

SpecAgg == InitAgg /\ [][NextAgg]_vars


(***************************************************************************)
(* The render: refresh_dashboard, and create_dashboard called on its own   *)
(* with whatever calculate_leaderboard returned, on a Viz sheet that keeps *)
(* what earlier renders left on it.                                        *)
(***************************************************************************)
RenderSheets ==
    { <<>>,
      <<Header>>,
      <<Header, <<"Alice", "", "0">>, <<"Bob", "-5", "">> >>,
      <<Header, <<"Alice", "100", "50">>, <<"Bob", "50", "">> >>,
      <<Header, <<"Bob", "100", "100">> >>,
      << <<"Player", "01-Jan-2025">>, <<"Alice", "100">> >>,
      << <<"Name">>, <<"Alice">> >> }

InitRender ==
    /\ values \in RenderSheets
    /\ now = StartDate
    /\ df = EmptyDataFrame
    /\ leaderboard = <<>>
    /\ alert_state = "Idle"
    /\ pc = "input"
    /\ NoScheduledRun
    /\ NoAutoRefresh

\* the number of calls create_dashboard makes on the Viz sheet for table d
OpCount(d) ==
    Len(DashboardOps(calculate_leaderboard(d), d, LastDataDateOf(d), now))

\* what can go wrong in one render: nothing, or the k-th Viz sheet call
RenderFaults(vals) ==
    {{}} \cup {{k} : k \in 1..OpCount(read_data(vals, FALSE))}

\* the effects of a render on the state
Rendered(r, d, lb) ==
    /\ viz' = r.viz
    /\ calls' = r.calls
    /\ outcome' = IF r.raised THEN "raised" ELSE "returned"
    /\ df' = d
    /\ leaderboard' = lb

RefreshedOnce(r) == Rendered(r, r.df, r.leaderboard)

\* one call of refresh_dashboard
RefreshDashboard ==
    /\ pc = "input"
    /\ \E read_failed \in BOOLEAN : \E viz_fails \in RenderFaults(values) :
         RefreshedOnce(refresh_dashboard(values, viz, now, read_failed, viz_fails))
    /\ pc' = "done"
    /\ UNCHANGED <<values, now, alert_state, env, posts, auto>>

CreatedFrom(d, lb, viz_fails) ==
    Rendered(create_dashboard(lb, d, LastDataDateOf(d), now, viz, viz_fails), d, lb)

\* one call of create_dashboard with the table read_data returned and the
\* list calculate_leaderboard made of it, empty or not
CreateDashboard ==
    /\ pc = "input"
    /\ \E viz_fails \in RenderFaults(values) :
         CreatedFrom(read_data(values, FALSE),
                     calculate_leaderboard(read_data(values, FALSE)),
                     viz_fails)
    /\ pc' = "done"
    /\ UNCHANGED <<values, now, alert_state, env, posts, auto>>

\* no call of the last render failed
CleanRender ==
    /\ outcome = "returned"
    /\ \A i \in 1..Len(calls) :
           calls[i] \notin {"format failed", "batch_update failed"}

\* after a render that went through, the Team sheet is edited, or left as
\* it is, and rendered again
NextRender ==
    /\ pc = "done"
    /\ CleanRender
    /\ values' \in RenderSheets
    /\ calls' = <<>>
    /\ outcome' = "none"
    /\ pc' = "input"
    /\ UNCHANGED <<df, leaderboard, now, alert_state, env, viz, posts, auto>>

NextOfRender == RefreshDashboard \/ CreateDashboard \/ NextRender

SpecRender == InitRender /\ [][NextOfRender]_vars

(***************************************************************************)
(* Properties of calculate_leaderboard, stated on the rows of the table    *)
(* it was given (df) and the list it returned (leaderboard).               *)
(***************************************************************************)
Dates == Range(DateColumns(df.columns))

RowIds == 1..Len(df.rows)

Entries == 1..Len(leaderboard)

\* the date columns in which row i holds a strictly positive score
Played(i) == {col \in Dates : df.rows[i].score[col] > 0}

RECURSIVE SumOver(_, _)
SumOver(i, cols) ==
    IF cols = {} THEN 0
    ELSE LET col == CHOOSE c \in cols : TRUE
         IN  df.rows[i].score[col] + SumOver(i, cols \ {col})

\* entry e is the entry of row i: same player, same contributing cells
IsEntryOf(e, i) ==
    /\ e.player = Strip(df.rows[i].Name)
    /\ Len(e.player_scores) = Cardinality(Played(i))
    /\ Range(e.player_scores) = {<<col, df.rows[i].score[col]>> : col \in Played(i)}

\* every entry comes from a row that played, and every such row has as many
\* entries as there are rows equal to it
EntriesMatchRows ==
    /\ \A k \in Entries : \E i \in RowIds : Played(i) # {} /\ IsEntryOf(leaderboard[k], i)
    /\ \A i \in RowIds : Played(i) # {} =>
           Cardinality({k \in Entries : IsEntryOf(leaderboard[k], i)})
             = Cardinality({j \in RowIds : df.rows[j] = df.rows[i]
                                           \/ (/\ Strip(df.rows[j].Name) = Strip(df.rows[i].Name)
                                               /\ Played(j) = Played(i)
                                               /\ \A c \in Played(i) :
                                                    df.rows[j].score[c] = df.rows[i].score[c])})

\* row i holds the unique positive maximum of column col
UniqueMax(i, col) ==
    /\ df.rows[i].score[col] > 0
    /\ \A j \in RowIds \ {i} : df.rows[j].score[col] < df.rows[i].score[col]

ScenarioSheet(a, b) ==
    <<Header, <<"Alice", a, "">>, <<"Bob", b, "">> >>

FirstOf(name) ==
    {leaderboard[k].first_place_count : k \in {n \in Entries : leaderboard[n].player = name}}

\* C1: an entry is credited a first place for a date column exactly when its
\* row holds a positive score there that is strictly greater than the score of
\* every other row; a shared maximum credits nobody; first_place_count is the
\* number of credited columns (Alice 100 / Bob 100 gives 0 and 0, Alice 100 /
\* Bob 50 gives 1 and 0).
FirstPlaceIsUniqueMax ==
    pc = "done" =>
        /\ EntriesMatchRows
        /\ \A k \in Entries : \A i \in RowIds :
               IsEntryOf(leaderboard[k], i) =>
                   leaderboard[k].first_place_count
                     = Cardinality({col \in Dates : UniqueMax(i, col)})
        /\ values = ScenarioSheet("100", "100") =>
               FirstOf("Alice") = {0} /\ FirstOf("Bob") = {0}
        /\ values = ScenarioSheet("100", "50") =>
               FirstOf("Alice") = {1} /\ FirstOf("Bob") = {0}

\* a table where one column is tied at its maximum and another has a unique winner
WitnessFirstPlace ==
    /\ pc = "done"
    /\ \E col \in Dates : \E i, j \in RowIds :
           i # j /\ df.rows[i].score[col] > 0
                 /\ df.rows[i].score[col] = df.rows[j].score[col]
    /\ \E k \in Entries : leaderboard[k].first_place_count = 1
    /\ \E k \in Entries : leaderboard[k].first_place_count = 0

\* C2: the returned list is sorted by total_score, non-increasing, and entries
\* of equal total_score keep the relative order of their rows in the table.
SortedStable ==
    pc = "done" =>
        /\ \A a, b \in Entries :
               a < b => leaderboard[a].total_score >= leaderboard[b].total_score
        /\ \A k \in Entries :
               LET t == leaderboard[k].total_score
               IN  SelectSeq(leaderboard, LAMBDA e : e.total_score = t)
                     = SelectSeq(FinalLeaderboard(df, df.rows),
                                 LAMBDA e : e.total_score = t)

\* two different players with the same total: Bob's row comes first in the
\* table and stays first
WitnessStableTie ==
    /\ pc = "done"
    /\ Len(leaderboard) = 2
    /\ leaderboard[1].total_score = leaderboard[2].total_score
    /\ leaderboard[1].player = "Bob" /\ leaderboard[2].player = "Alice"
    /\ leaderboard[1].player_scores # leaderboard[2].player_scores
    /\ df.rows[1].Name = "Bob"

\* C3: total_score is the sum of the row's strictly positive cells,
\* games_played their number and best_score their maximum.
StatsOfPositiveCells ==
    pc = "done" =>
        /\ EntriesMatchRows
        /\ \A k \in Entries : \A i \in RowIds :
               IsEntryOf(leaderboard[k], i) =>
                   /\ leaderboard[k].total_score = SumOver(i, Played(i))
                   /\ leaderboard[k].games_played = Cardinality(Played(i))
                   /\ leaderboard[k].best_score \in {df.rows[i].score[c] : c \in Played(i)}
                   /\ \A c \in Played(i) : leaderboard[k].best_score >= df.rows[i].score[c]

\* an entry of two games with different scores, next to a cell that does not count
WitnessStats ==
    /\ pc = "done"
    /\ \E k \in Entries :
           /\ leaderboard[k].games_played = 2
           /\ leaderboard[k].total_score = 150
           /\ leaderboard[k].best_score = 100
    /\ \E i \in RowIds : \E c \in Dates : df.rows[i].score[c] < 0

\* the table with every zero-or-negative cell replaced by v
WithNonPositive(d, v) ==
    [d EXCEPT !.rows = [i \in 1..Len(d.rows) |->
        [d.rows[i] EXCEPT !.score = [c \in DOMAIN d.rows[i].score |->
            IF d.rows[i].score[c] > 0 THEN d.rows[i].score[c] ELSE v]]]]

\* C4: every entry has games_played >= 1; a row without a positive cell has
\* no entry; a zero-or-negative cell adds nothing to any entry: the result is
\* the one of the table with those cells read as 0 (did not play) or as -5.
OnlyPlayersWhoPlayed ==
    pc = "done" =>
        /\ \A k \in Entries : leaderboard[k].games_played >= 1
        /\ EntriesMatchRows
        /\ Len(leaderboard) = Cardinality({i \in RowIds : Played(i) # {}})
        /\ leaderboard = calculate_leaderboard(WithNonPositive(df, 0))
        /\ leaderboard = calculate_leaderboard(WithNonPositive(df, -5))

\* a row of only zero and negative cells was dropped and another row kept
WitnessOnlyPlayers ==
    /\ pc = "done"
    /\ Len(leaderboard) = 1
    /\ Len(df.rows) = 2
    /\ \E i \in RowIds : Played(i) = {} /\ \E c \in Dates : df.rows[i].score[c] < 0
    /\ \E i \in RowIds : Played(i) # {} /\ \E c \in Dates : df.rows[i].score[c] < 0

\* C5: 0 <= first_place_count <= games_played, and win_rate, which is
\* first_place_count / games_played * 100, lies in [0, 100].
WinRateInRange ==
    pc = "done" =>
        \A k \in Entries :
            LET e == leaderboard[k]
            IN  /\ 0 <= e.first_place_count
                /\ e.first_place_count <= e.games_played
                /\ e.win_rate.den = e.games_played
                /\ e.win_rate.num = e.first_place_count * 100
                /\ e.win_rate.den > 0
                /\ 0 <= e.win_rate.num
                /\ e.win_rate.num <= 100 * e.win_rate.den

\* win rates of 0, 50 and 100 percent
WitnessWinRate ==
    /\ pc = "done"
    /\ \E k \in Entries : leaderboard[k].games_played = 2
                          /\ leaderboard[k].first_place_count = 1
    /\ \E k \in Entries : leaderboard[k].win_rate.num = 0

\* C6: no two entries of the returned list have the same player name.
PlayerIsUniqueKey ==
    pc = "done" =>
        \A a, b \in Entries : a # b => leaderboard[a].player # leaderboard[b].player


(***************************************************************************)
(* Properties of the render.                                               *)
(***************************************************************************)
\* the position in calls of the call of create_dashboard, 0 when it was not called
CreateAt ==
    IF "create_dashboard" \in Range(calls)
    THEN CHOOSE i \in 1..Len(calls) : calls[i] = "create_dashboard"
    ELSE 0

\* the Viz sheet calls of the last render, as create_dashboard makes them for
\* the table and the leaderboard it was given
LastOps == DashboardOps(leaderboard, df, LastDataDateOf(df), now)

\* no clear, update or merge of the last render failed
SheetCallsWorked ==
    \A i \in 1..Len(calls) :
        calls[i] \notin {"clear failed", "update failed", "merge failed"}

\* the summary block of an empty leaderboard: rows 7 to 12
EmptySummary == Rng("A", 7, "B", 12)

\* C11: an empty table is not an error: calculate_leaderboard returns the
\* empty list for it, and create_dashboard given an empty leaderboard, on a
\* sheet whose value writes work, returns without raising, writes no data
\* rows and writes the summary with 0 players, 0 participations and
\* "No data" for the current leader and for the holder of the highest score.
EmptyTableIsNotAnError ==
    pc = "done" =>
        /\ IsEmpty(df) => calculate_leaderboard(df) = <<>>
        /\ (CreateAt > 0 /\ leaderboard = <<>> /\ SheetCallsWorked) =>
               /\ outcome = "returned"
               /\ Count(calls, "update") = 5
               /\ \A r \in DOMAIN viz.cells : r[2] # 5
               /\ EmptySummary \in DOMAIN viz.cells
               /\ viz.cells[EmptySummary][1] = <<"Total Players:", 0>>
               /\ viz.cells[EmptySummary][3] = <<"Current Leader:", "No data">>
               /\ viz.cells[EmptySummary][4][2].value = <<0, "No data">>
               /\ viz.cells[EmptySummary][6] = <<"Total Participations:", 0>>

\* create_dashboard drew the dashboard of a header-only Team sheet
WitnessEmptyTable ==
    /\ pc = "done"
    /\ values = <<Header>>
    /\ IsEmpty(df)
    /\ leaderboard = <<>>
    /\ CreateAt = 1
    /\ outcome = "returned"
    /\ EmptySummary \in DOMAIN viz.cells

\* the header row of the Team sheet has no Name column
NoNameHeader == values # <<>> /\ "Name" \notin Range(Head(values))

\* C12: when the header row has no Name column, read_data returns an empty
\* table instead of raising, and refresh_dashboard returns normally after
\* read_data, without computing a leaderboard.
NoNameColumnIsNothingToShow ==
    (pc = "done" /\ NoNameHeader) =>
        /\ IsEmpty(read_data(values, FALSE))
        /\ Head(calls) = "refresh_dashboard" =>
               /\ IsEmpty(df)
               /\ outcome = "returned"
               /\ calls = <<"refresh_dashboard", "read_data">>
               /\ leaderboard = <<>>

\* refresh_dashboard ran on a Team sheet whose header is Player, 01-Jan-2025
WitnessNoNameColumn ==
    /\ pc = "done"
    /\ NoNameHeader
    /\ Len(values) = 2
    /\ Head(calls) = "refresh_dashboard"
    /\ outcome = "returned"

\* the i-th Viz sheet call of the last render was made and took effect
Performed(i) ==
    /\ calls[CreateAt + i] = LastOps[i].op
    /\ CASE LastOps[i].op = "update" ->
               /\ LastOps[i].range \in DOMAIN viz.cells
               /\ viz.cells[LastOps[i].range] = LastOps[i].values
          [] LastOps[i].op = "format" ->
               /\ LastOps[i].range \in DOMAIN viz.formats
               /\ viz.formats[LastOps[i].range] = LastOps[i].values
          [] LastOps[i].op = "merge" -> LastOps[i].range \in viz.merged
          [] LastOps[i].op = "batch_update" -> LastOps[i].values \in viz.sized
          [] OTHER -> TRUE

\* C13: a failing format call of create_dashboard is skipped and does not
\* abort the render: when no clear, update or merge fails, create_dashboard
\* returns, it has made every one of its calls, and every call that did not
\* fail itself, the value writes and the format calls after the failed one
\* among them, has taken effect on the Viz sheet.
FormatFailureIsSkipped ==
    (pc = "done" /\ CreateAt > 0 /\ SheetCallsWorked) =>
        /\ outcome = "returned"
        /\ Len(calls) = CreateAt + Len(LastOps)
        /\ \A i \in 1..Len(LastOps) :
               \/ Performed(i)
               \/ /\ LastOps[i].op \in {"format", "batch_update"}
                  /\ calls[CreateAt + i] = LastOps[i].op \o " failed"

\* the format call of the title failed in the render of two players, which
\* went on to the dimension update
WitnessFormatFailure ==
    /\ pc = "done"
    /\ Len(leaderboard) = 2
    /\ CreateAt > 0
    /\ outcome = "returned"
    /\ Len(calls) = CreateAt + Len(LastOps)
    /\ calls[CreateAt + 3] = "format failed"
    /\ calls[Len(calls)] = "batch_update"
    /\ Rng("A", 5, "H", 5) \in DOMAIN viz.formats

\* C16: a refresh_dashboard that read an empty table, or whose leaderboard
\* is empty, returns before create_dashboard is called and leaves the Viz
\* sheet as the previous render left it; a refresh that clears the sheet
\* has a non-empty leaderboard.
NothingToShowLeavesGrid ==
    [][RefreshDashboard =>
          /\ (IsEmpty(df') \/ leaderboard' = <<>>) =>
                 /\ viz' = viz
                 /\ "create_dashboard" \notin Range(calls')
                 /\ outcome' = "returned"
          /\ "clear" \in Range(calls') => leaderboard' # <<>>]_vars

\* a refresh of a header-only Team sheet left the two data rows of the
\* previous refresh on the Viz sheet
WitnessGridKept ==
    /\ pc = "done"
    /\ values = <<Header>>
    /\ calls = <<"refresh_dashboard", "read_data">>
    /\ Rng("A", 5, "H", 6) \in DOMAIN viz.cells

(***************************************************************************)
(* Properties of should_send_alert.                                        *)
(***************************************************************************)
MinutesOfWeek == 7 * 24 * 60

\* minutes from the start date to t; negative before it
MinutesSinceStart(t) ==
    (ToOrdinal(t) - ToOrdinal(StartDate)) * 24 * 60
      + (t.hour * 60 + t.minute) - (StartDate.hour * 60 + StartDate.minute)

\* whole weeks elapsed from the start date to t
WholeWeeks(t) == MinutesSinceStart(t) \div MinutesOfWeek

At(y, m, d, h, mi) == [year |-> y, month |-> m, day |-> d, hour |-> h, minute |-> mi]

DueAt(t) == should_send_alert(t)

\* the times of the window, on the hour, at which an alert is due
DueDays == {ToOrdinal(t) : t \in {u \in Times : DueAt(u)}}

\* C7 as stated: AlertDue exactly when t is a Monday, its hour is 17 and the
\* number of whole weeks between the start date and t is even.
AlertDueIffMondayEvenWeek ==
    pc = "done" =>
        (alert_state = "AlertDue"
           <=> (Weekday(now) = 0 /\ now.hour = 17 /\ WholeWeeks(now) % 2 = 0))

\* C7, amended: AlertDue exactly when t is not before the start date
\* 2025-07-21 17:00, is a Monday, its hour is 17 and the number of whole weeks
\* elapsed since the start date is even; 2025-07-21 17:00 and 2025-08-04 17:00
\* are AlertDue, 2025-07-28 17:00 is Idle, and consecutive qualifying Mondays
\* are 14 days apart.
AlertDueIffMondayEvenWeekFromStart ==
    pc = "done" =>
        /\ alert_state = "AlertDue"
             <=> /\ MinutesSinceStart(now) >= 0
                 /\ Weekday(now) = 0
                 /\ now.hour = 17
                 /\ WholeWeeks(now) % 2 = 0
        /\ now = At(2025, 7, 21, 17, 0) => alert_state = "AlertDue"
        /\ now = At(2025, 7, 28, 17, 0) => alert_state = "Idle"
        /\ now = At(2025, 8, 4, 17, 0) => alert_state = "AlertDue"
        /\ alert_state = "AlertDue" =>
               /\ ToOrdinal(now) + 14 \in DueDays \/ ToOrdinal(now) + 14 > ToOrdinal(StartDate) + 7 * MaxWeeks
               /\ \A k \in 1..13 : ToOrdinal(now) + k \notin DueDays

\* the check said AlertDue at a qualifying Monday of the next year, 24 weeks
\* after the start date
WitnessAlertDue ==
    /\ pc = "done"
    /\ alert_state = "AlertDue"
    /\ now = At(2026, 1, 5, 17, 30)


(***************************************************************************)
(* Properties of run_scheduled_tasks.                                      *)
(***************************************************************************)
ManualOverride == manual_trigger \in {"true", "TRUE"}

\* the calls of a scheduled run at the start date, which is due, without the
\* schedule check that opens it
AlertDuePaths ==
    {Tail(run_scheduled_tasks("", values, EmptyViz, StartDate, webhook_url,
                              f[1], f[2], f[3]).calls) : f \in Faults}

IsPost(c) == c \in {"requests.post " \o r : r \in Responses}

\* C8: with the manual override set, run_scheduled_tasks makes the calls of
\* the AlertDue path, the dashboard refresh first and then the alert, whatever
\* the current time is, and does not call should_send_alert.
ManualOverrideForcesAlert ==
    (pc = "done" /\ ManualOverride) =>
        /\ "should_send_alert" \notin Range(calls)
        /\ calls \in AlertDuePaths
        /\ Head(calls) = "refresh_dashboard"
        /\ (/\ outcome = "returned"
            /\ webhook_url # ""
            /\ ~IsEmpty(df)
            /\ leaderboard # <<>>) => IsPost(calls[Len(calls)])

\* a manual run one minute before the first qualifying hour drew the
\* dashboard and posted the alert
WitnessManualOverride ==
    /\ pc = "done"
    /\ manual_trigger = "TRUE"
    /\ now = At(2025, 7, 21, 16, 59)
    /\ ~should_send_alert(now)
    /\ posts = 1
    /\ viz.cells # Nothing
    /\ calls[Len(calls)] = "requests.post 200"

\* Monday 17:00-17:59 of an even week, from the start date on
QualifyingHour(t) ==
    /\ Weekday(t) = 0
    /\ t.hour = 17
    /\ MinutesSinceStart(t) >= 0
    /\ WholeWeeks(t) % 2 = 0

\* the Team sheet holds at least one player with a positive score
HasPlayers ==
    /\ Len(values) > 1
    /\ "Name" \in Range(values[1])
    /\ \E i \in 2..Len(values) : \E j \in 1..Len(values[i]) :
           values[1][j] # "Name" /\ values[i][j] \in {"50", "100"}

\* a run that met fault f: reads[2], the read of the table for the alert,
\* did not fail and no Viz sheet call raised out of the refresh
NotCutShort(f) ==
    /\ 2 \notin f[1]
    /\ ~run_scheduled_tasks(manual_trigger, values, viz, now, webhook_url,
                            f[1], f[2], f[3]).raised

\* C9: a scheduled run in a qualifying hour with players in the table and the
\* webhook configured posts one more alert, however many were posted before,
\* unless the run was cut short by a failing Viz sheet call or a failing read
\* of the table.
EveryRunInTheHourAlerts ==
    [][(/\ RunScheduledTasks
        /\ manual_trigger = ""
        /\ QualifyingHour(now)
        /\ HasPlayers
        /\ webhook_url # "")
       => \A f \in Faults :
             (/\ Ran(run_scheduled_tasks(manual_trigger, values, viz, now,
                                         webhook_url, f[1], f[2], f[3]))
              /\ NotCutShort(f))
             => (posts' = posts + 1 /\ alert_state' = "AlertDue")]_vars

\* two alerts were posted at 17:00 of the start date, the first qualifying minute
WitnessTwoAlertsSameMinute ==
    /\ pc = "done"
    /\ manual_trigger = ""
    /\ now = StartDate
    /\ posts = 2
    /\ outcome = "returned"

\* the number of POSTs among the calls c
PostsIn(c) == Cardinality({i \in 1..Len(c) : IsPost(c[i])})

\* C14: send_google_chat_alert makes at most one POST; whatever the response,
\* 200, another status or a transport error, the POST is its last call, it is
\* not repeated and the caller returns normally; with no webhook URL or an
\* empty leaderboard it makes no POST.
AtMostOnePost ==
    [][RunScheduledTasks =>
          /\ Count(calls', "send_google_chat_alert") <= 1
          /\ PostsIn(calls') <= Count(calls', "send_google_chat_alert")
          /\ posts' = posts + PostsIn(calls')
          /\ PostsIn(calls') = 1 =>
                 /\ IsPost(calls'[Len(calls')])
                 /\ outcome' = "returned"
          /\ (webhook_url = "" \/ leaderboard' = <<>>) => PostsIn(calls') = 0]_vars

\* the webhook answered 500 to the only POST of a run, which returned
WitnessFailedPost ==
    /\ pc = "done"
    /\ posts = 1
    /\ calls # <<>>
    /\ calls[Len(calls)] = "requests.post 500"
    /\ outcome = "returned"

\* C15: a scheduled run without the manual override at a time when
\* should_send_alert is false only consults the schedule: it does not read
\* the Team sheet, leaves the Viz sheet as it is and POSTs nothing.
NotDueRunHasNoEffect ==
    [][(/\ RunScheduledTasks
        /\ Lower(manual_trigger) # "true"
        /\ ~should_send_alert(now))
       => /\ calls' = <<"should_send_alert">>
          /\ viz' = viz
          /\ posts' = posts
          /\ outcome' = "returned"]_vars

\* a run in the odd week found the dashboard of the run a week earlier and
\* left it
WitnessNotDue ==
    /\ pc = "done"
    /\ manual_trigger = ""
    /\ now = At(2025, 7, 28, 17, 0)
    /\ calls = <<"should_send_alert">>
    /\ posts = 1
    /\ viz.cells # Nothing

(***************************************************************************)
(* Properties of auto_refresh.                                             *)
(***************************************************************************)
\* between two refresh attempts the loop slept exactly once, and nothing but
\* the user's interrupt ended it
OneSleepPerCycle ==
    /\ loop # "crashed"
    /\ (loop = "refresh" /\ attempts > 0) => sleeps = 1
    /\ loop \in {"stopped", "interrupted"} => sleeps <= 1

\* C10: a failed refresh cycle is skipped, the loop sleeps the interval once
\* and attempts the next refresh; only a user interrupt ends the loop, and
\* exactly one sleep separates two consecutive refresh attempts.
LoopSurvivesRefreshFailure == OneSleepPerCycle

\* the same for the intervals time.sleep accepts
LoopSurvivesWithValidInterval == interval_seconds >= 0 => OneSleepPerCycle

=============================================================================
